---- MODULE Spec2Model ----
(***************************************************************************)
(* Order placement, stock consistency, order status and notification       *)
(* fan-out of the e-commerce backend (api/models.py, api/views.py,         *)
(* api/serializers.py, api/consumers.py).                                  *)
(*                                                                         *)
(* The store (database rows) is the shared state.  CreateOrderView.post is *)
(* modelled statement by statement: every ORM call of the handler is one   *)
(* step, so that concurrent requests interleave between them exactly as    *)
(* they can on a multi-worker server (the handler opens no transaction and *)
(* takes no row lock).  AdminOrderStatusUpdateView.patch is two steps, the  *)
(* load of the order and the validation and save of the loaded instance.   *)
(* The other handlers are one step each.                                   *)
(***************************************************************************)
EXTENDS Integers, Sequences, FiniteSets, TLC

\* ---------------------------------------------------------------- bounds
MaxStock == 2
MaxPrice == 2
MaxReqs == 2
MaxCartOps == 2
MaxAdminOps == 1
MaxStatusOps == 3
MaxStatusReqs == 2
MaxCacheOps == 3
MaxCartReqs == 3
MaxClientMsgs == 2

Users == {"u1", "u2"}
Products == {"A", "B"}
NoProduct == "none"
Categories == {"k1"}
NoCategory == "none"
NoUser == "none"

\* WebSocket connections and the principals their scope may carry.
Conns == {"c1", "c2"}
AdminUser == "admin"
Anonymous == "anonymous"
Principals == Users \cup {AdminUser, Anonymous}
AdminGroup == "admin_orders"
GroupNames == Users \cup {AdminUser, AdminGroup}

VARIABLES stock, price, hasCart, cart, orders, orderItems, req, tasks, sent,
          conn, groups, inbox, cartOps, adminOps, stock0, statusResp, statusOps,
          statusReq, cache, cacheLog, cacheOps, deleted, category, adminResp,
          inactive, cartResp, received

vars == <<stock, price, hasCart, cart, orders, orderItems, req, tasks, sent,
          conn, groups, inbox, cartOps, adminOps, stock0, statusResp, statusOps,
          statusReq, cache, cacheLog, cacheOps, deleted, category, adminResp,
          inactive, cartResp, received>>

Reqs == 1..MaxReqs
StatusReqs == 1..MaxStatusReqs

\* ------------------------------------------------------------ api/models.py

\* Product.decrease_stock on the instance the caller loaded: whether it saved
\* (its return value) and the instance afterwards.  The check and the
\* subtraction act on the loaded instance, not on the row.
\* (DecreaseStockNoCheck: the method without its stock check.)
DecreaseStockNoCheck(prod, quantity) ==
    [ok |-> TRUE, prod |-> [prod EXCEPT !.stock = prod.stock - quantity]]

decrease_stock(prod, quantity) ==
    IF prod.stock >= quantity
      THEN [ok |-> TRUE, prod |-> [prod EXCEPT !.stock = prod.stock - quantity]]
      ELSE [ok |-> FALSE, prod |-> prod]

\* CartItem.total_price
\* (CartItemTotalNoQuantity: the property without the quantity factor.)
CartItemTotalNoQuantity(line, priceOf) ==
    priceOf[line.product]

CartItemTotal(line, priceOf) ==
    priceOf[line.product] * line.quantity

\* Cart.total_price: sum(item.total_price for item in self.items.all())
RECURSIVE CartTotal(_, _)
CartTotal(lines, priceOf) ==
    IF lines = <<>>
      THEN 0
      ELSE CartItemTotal(Head(lines), priceOf) + CartTotal(Tail(lines), priceOf)

\* CartItem.save: the quantity is clamped to the product's stock.
CartItemSave(quantity, productStock) ==
    IF quantity > productStock THEN productStock ELSE quantity

\* ------------------------------------------------------------ api/cache_utils.py

\* Cache keys are named by a pair <<form, argument>>; KeyText is the string
\* the code builds for the key, as its sequence of characters.  Product "A"
\* has id 1, product "B" id 2, category "k1" id 1.
IdText(id) ==
    IF id = "B" THEN <<"2">> ELSE <<"1">>

TextProductDetail ==
    <<"p", "r", "o", "d", "u", "c", "t", "_", "d", "e", "t", "a", "i", "l",
      "_">>

TextProduct ==
    <<"p", "r", "o", "d", "u", "c", "t", "_">>

TextCategoryDetail ==
    <<"c", "a", "t", "e", "g", "o", "r", "y", "_", "d", "e", "t", "a", "i",
      "l", "_">>

TextCategory ==
    <<"c", "a", "t", "e", "g", "o", "r", "y", "_">>

\* hashlib.md5("products_list|timeout:3600").hexdigest()
Md5ProductsList ==
    <<"0", "3", "5", "9", "b", "6", "2", "8", "3", "1", "4", "5", "0", "8",
      "9", "1", "3", "9", "f", "d", "3", "0", "2", "5", "2", "c", "c", "b",
      "c", "0", "4", "7">>

\* hashlib.md5("categories_list|timeout:3600").hexdigest()
Md5CategoriesList ==
    <<"f", "8", "6", "2", "e", "d", "a", "c", "8", "a", "8", "9", "1", "3",
      "4", "d", "a", "e", "e", "e", "7", "d", "4", "d", "c", "0", "8", "b",
      "7", "b", "6", "0">>

\* The key cache_page(3600) gives the response of GET /products/:
\* "views.decorators.cache.cache_page." key_prefix "." method "." md5(url)
\* "." md5(varied headers).
TextCachePage ==
    <<"v", "i", "e", "w", "s", ".", "d", "e", "c", "o", "r", "a", "t", "o",
      "r", "s", ".", "c", "a", "c", "h", "e", ".", "c", "a", "c", "h", "e",
      "_", "p", "a", "g", "e", ".", ".", "G", "E", "T", ".", "c", "7", "d",
      "d", "2", "1", "c", "d", "0", "f", "f", "1", "0", "3", "3", "c", "a",
      "a", "1", "e", "4", "9", "0", "8", "0", "d", "e", "e", "7", "7", "4",
      "a", ".", "d", "4", "1", "d", "8", "c", "d", "9", "8", "f", "0", "0",
      "b", "2", "0", "4", "e", "9", "8", "0", "0", "9", "9", "8", "e", "c",
      "f", "8", "4", "2", "7", "e">>

\* get_cache_key(prefix, timeout=timeout): the md5 hex digest of
\* "prefix|timeout:3600".
get_cache_key(prefix) ==
    <<"md5", prefix>>

ProductDetailKey(id) == <<"product_detail", id>>
ProductKey(id) == <<"product", id>>
CategoryDetailKey(id) == <<"category_detail", id>>
CategoryKey(id) == <<"category", id>>
CachePageKey == <<"cache_page", "products">>

CacheKeys ==
    {ProductDetailKey(p) : p \in Products} \cup {ProductKey(p) : p \in Products}
    \cup {CategoryDetailKey(c) : c \in Categories} \cup {CategoryKey(c) : c \in Categories}
    \cup {get_cache_key("products_list"), get_cache_key("categories_list"), CachePageKey}

KeyText(k) ==
    CASE k[1] = "product_detail" -> TextProductDetail \o IdText(k[2])
      [] k[1] = "product" -> TextProduct \o IdText(k[2])
      [] k[1] = "category_detail" -> TextCategoryDetail \o IdText(k[2])
      [] k[1] = "category" -> TextCategory \o IdText(k[2])
      [] k[1] = "md5" /\ k[2] = "products_list" -> Md5ProductsList
      [] k[1] = "md5" /\ k[2] = "categories_list" -> Md5CategoriesList
      [] OTHER -> TextCachePage

\* The patterns of the delete_pattern calls, without their leading and
\* trailing "*".
PatProductsList ==
    <<"p", "r", "o", "d", "u", "c", "t", "s", "_", "l", "i", "s", "t">>

PatProductList ==
    <<"p", "r", "o", "d", "u", "c", "t", "_", "l", "i", "s", "t">>

PatPublicProducts ==
    <<"p", "u", "b", "l", "i", "c", "_", "p", "r", "o", "d", "u", "c", "t",
      "s">>

PatCategoriesList ==
    <<"c", "a", "t", "e", "g", "o", "r", "i", "e", "s", "_", "l", "i", "s",
      "t">>

PatCategoryList ==
    <<"c", "a", "t", "e", "g", "o", "r", "y", "_", "l", "i", "s", "t">>

PatPublicCategories ==
    <<"p", "u", "b", "l", "i", "c", "_", "c", "a", "t", "e", "g", "o", "r",
      "i", "e", "s">>

Patterns ==
    {PatProductsList, PatProductList, PatPublicProducts,
     PatCategoriesList, PatCategoryList, PatPublicCategories}

\* text matches the glob "*pat*": pat occurs in text.
Contains(text, pat) ==
    \E i \in 0..(Len(text) - Len(pat)) : SubSeq(text, i + 1, i + Len(pat)) = pat

\* The keys each pattern matches.
Matching ==
    [pat \in Patterns |-> {k \in CacheKeys : Contains(KeyText(k), pat)}]

\* A cache entry: Miss when cache.get returns None, else the stored value.
Miss == <<>>
Hit(data) == <<data>>

\* cache.delete(key) and cache.delete_pattern("*pat*")
CacheDelete(c, k) ==
    [c EXCEPT ![k] = Miss]

DeletePattern(c, pat) ==
    [k \in CacheKeys |-> IF k \in Matching[pat] THEN Miss ELSE c[k]]

\* invalidate_product_cache(product_id) / invalidate_category_cache(category_id):
\* "if product_id:" skips the detail keys when no id is given.
\* (InvalidateProductListsOnly: the function without its detail deletes.)
InvalidateProductListsOnly(c, id) ==
    DeletePattern(DeletePattern(DeletePattern(c, PatProductsList), PatProductList),
                  PatPublicProducts)

invalidate_product_cache(c, id) ==
    LET c1 == IF id # NoProduct
                THEN CacheDelete(CacheDelete(c, ProductDetailKey(id)), ProductKey(id))
                ELSE c
    IN  DeletePattern(DeletePattern(DeletePattern(c1, PatProductsList), PatProductList),
                      PatPublicProducts)

invalidate_category_cache(c, id) ==
    LET c1 == IF id # NoCategory
                THEN CacheDelete(CacheDelete(c, CategoryDetailKey(id)), CategoryKey(id))
                ELSE c
    IN  DeletePattern(DeletePattern(DeletePattern(c1, PatCategoriesList), PatCategoryList),
                      PatPublicCategories)

\* What the store holds for a product, a category and the two lists.
ProductRow(p) == <<p, stock[p], price[p]>>
CategoryRow(k) == <<k, category[k]>>
ProductOrder == <<"A", "B">>
ProductList ==
    LET live == SelectSeq(ProductOrder, LAMBDA p : p \notin deleted)
    IN  [i \in 1..Len(live) |-> ProductRow(live[i])]
CategoryList == <<CategoryRow("k1")>>

\* What a read of the store would put under key k.
Fresh(k) ==
    CASE k[1] = "product_detail" -> ProductRow(k[2])
      [] k[1] = "category_detail" -> CategoryRow(k[2])
      [] k[1] = "md5" /\ k[2] = "categories_list" -> CategoryList
      [] OTHER -> ProductList

\* ------------------------------------------------------------ helpers

\* CustomUser.is_authenticated / CustomUser.is_admin of a connection's scope user
IsAuthenticated(who) ==
    who # Anonymous

IsAdminAlways(who) ==
    TRUE

IsAdmin(who) ==
    who = AdminUser

\* f'user_{self.user.id}'
\* (UserGroupShared: one group name for every user.)
UserGroupShared(u) ==
    "u1"

UserGroup(u) ==
    u

LineIndex(lines, p) ==
    IF \E i \in 1..Len(lines) : lines[i].product = p
      THEN CHOOSE i \in 1..Len(lines) : lines[i].product = p
      ELSE 0

\* The lines of the first loop of CreateOrderView.post that fail the check, in
\* the order the queryset yields them.
InsufficientLines(lines, stockOf) ==
    SelectSeq(lines, LAMBDA l : l.quantity > stockOf[l.product])

\* Validation loop of CreateOrderView.post: the first line whose quantity
\* exceeds the stock, or no line.
\* (FirstLineOnlyInsufficient: a loop that looks at the first line only.)
FirstLineOnlyInsufficient(lines, stockOf) ==
    IF lines # <<>> /\ lines[1].quantity > stockOf[lines[1].product]
      THEN <<lines[1]>>
      ELSE <<>>

ValidateStock(lines, stockOf) ==
    LET bad == InsufficientLines(lines, stockOf)
    IN  IF bad = <<>> THEN <<>> ELSE <<bad[1]>>

NoResp == [code |-> 0, kind |-> "none", product |-> NoProduct, available |-> 0]
NoProd == [id |-> NoProduct, stock |-> 0, price |-> 0]
NewConn == [state |-> "new", endpoint |-> "none", user |-> NoUser, failed |-> FALSE]
Established ==
    [type |-> "connection_established", order |-> 0, new |-> "none", op |-> 0]
NoStatusResp ==
    [order |-> 0, old |-> "none", requested |-> "none", before |-> "none", code |-> 0]
NoneReceived ==
    [conn |-> "none", type |-> "none", n |-> 0]
NoCartResp ==
    [op |-> "none", user |-> NoUser, owner |-> NoUser, item |-> 0,
     product |-> NoProduct, q |-> 0, before |-> 0, code |-> 0]
NoAdminResp ==
    [op |-> "none", code |-> 0]
IdleStatusReq ==
    [pc |-> "idle", order |-> 0, status |-> "none", value |-> "none", loop |-> FALSE,
     op |-> 0]
IdleReq ==
    [pc |-> "idle", user |-> NoUser, loop |-> FALSE, items |-> <<>>, idx |-> 0,
     prod |-> NoProd, order |-> 0, declined |-> FALSE, audience |-> {},
     resp |-> NoResp]

\* ------------------------------------------------------------ initial store

Init ==
    /\ stock \in [Products -> 0..MaxStock]
    /\ price = [p \in Products |-> IF p = "A" THEN 1 ELSE MaxPrice]
    /\ stock0 = stock
    /\ hasCart = [u \in Users |-> FALSE]
    /\ cart = [u \in Users |-> <<>>]
    /\ orders = <<>>
    /\ orderItems = {}
    /\ req = [r \in Reqs |-> IdleReq]
    /\ tasks = <<>>
    /\ sent = <<>>
    /\ conn = [c \in Conns |-> NewConn]
    /\ groups = [g \in GroupNames |-> {}]
    /\ inbox = [c \in Conns |-> <<>>]
    /\ cartOps = 0
    /\ adminOps = 0
    /\ statusResp = NoStatusResp
    /\ statusOps = 0
    /\ statusReq = [s \in StatusReqs |-> IdleStatusReq]
    /\ cache = [k \in CacheKeys |-> Miss]
    /\ cacheLog = <<>>
    /\ cacheOps = 0
    /\ deleted = {}
    /\ category = [k \in Categories |-> 0]
    /\ adminResp = NoAdminResp
    /\ inactive = {}
    /\ cartResp = NoCartResp
    /\ received = NoneReceived

\* ------------------------------------------------------------ cart

\* AddToCartSerializer.is_valid
AddToCartValid(p, q) ==
    /\ q >= 1
    /\ p \in Products \ (deleted \cup inactive)
    /\ stock[p] > 0
    /\ q <= stock[p]

\* AddToCartView.post, the write: CartItem.objects.get_or_create with the
\* requested quantity, or the existing line's quantity raised by it and capped
\* at the stock; CartItem.save caps again.
\* (AddedLinesNoCap: the update of an existing line without either cap.)
AddedLinesNoCap(lines, p, q, productStock) ==
    LET i == LineIndex(lines, p)
    IN  IF i = 0
          THEN Append(lines, [product |-> p, quantity |-> q])
          ELSE [lines EXCEPT ![i].quantity = @ + q]

AddedLines(lines, p, q, productStock) ==
    LET i == LineIndex(lines, p)
    IN  IF i = 0
          THEN Append(lines, [product |-> p, quantity |-> CartItemSave(q, productStock)])
          ELSE [lines EXCEPT ![i].quantity =
                  CartItemSave(IF @ + q > productStock THEN productStock ELSE @ + q,
                               productStock)]

\* AddToCartView.post, an accepted request (its response is not recorded)
AddToCart(u, p, q) ==
    /\ cartOps < MaxCartOps
    /\ cartOps' = cartOps + 1
    /\ AddToCartValid(p, q)
    /\ stock[p] >= q
    /\ hasCart' = [hasCart EXCEPT ![u] = TRUE]
    /\ cart' = [cart EXCEPT ![u] = AddedLines(@, p, q, stock[p])]
    /\ UNCHANGED <<stock, price, orders, orderItems, req, tasks, sent, adminOps, stock0, conn, groups, inbox, statusResp, statusOps, statusReq, cache, cacheLog, cacheOps, deleted, category, adminResp, inactive, cartResp, received>>

\* The cart handlers with their responses.  cartResp records, for the
\* properties only, the last cart request: its operation, its caller, what
\* it named (target: the owner of a cart line and the line's position, or a
\* product, and a quantity), the quantity the named line had before, and the
\* status code of the answer.
NoTarget ==
    [owner |-> NoUser, item |-> 0, product |-> NoProduct, q |-> 0, before |-> 0]

CartRequest(op, u, target, code) ==
    /\ cartOps < MaxCartReqs
    /\ cartOps' = cartOps + 1
    /\ cartResp' = [op |-> op, user |-> u, owner |-> target.owner, item |-> target.item,
                    product |-> target.product, q |-> target.q,
                    before |-> target.before, code |-> code]

LineTarget(owner, i, q) ==
    [NoTarget EXCEPT !.owner = owner, !.item = i, !.q = q,
       !.product = IF i \in 1..Len(cart[owner]) THEN cart[owner][i].product ELSE NoProduct,
       !.before = IF i \in 1..Len(cart[owner]) THEN cart[owner][i].quantity ELSE 0]

ProductTarget(u, p, q) ==
    [NoTarget EXCEPT !.owner = u, !.product = p, !.q = q,
       !.before = IF LineIndex(cart[u], p) = 0 THEN 0
                  ELSE cart[u][LineIndex(cart[u], p)].quantity]

CartStoreUnchanged ==
    UNCHANGED <<stock, price, orders, orderItems, req, tasks, sent, adminOps, stock0, conn, groups, inbox, statusResp, statusOps, statusReq, cache, cacheLog, cacheOps, deleted, category, adminResp, inactive, received>>

\* AddToCartView.post: 400 when the serializer rejects the request, before
\* any write; otherwise the cart is fetched or created and the line written.
\* (The 404 and the 400 of the view body repeat tests the serializer has just
\* made.)
AddItem(u, p, q) ==
    /\ IF AddToCartValid(p, q)
         THEN /\ CartRequest("add", u, ProductTarget(u, p, q), 200)
              /\ hasCart' = [hasCart EXCEPT ![u] = TRUE]
              /\ cart' = [cart EXCEPT ![u] = AddedLines(@, p, q, stock[p])]
         ELSE /\ CartRequest("add", u, ProductTarget(u, p, q), 400)
              /\ UNCHANGED <<hasCart, cart>>
    /\ CartStoreUnchanged

\* UpdateCartItemSerializer.validate_quantity, with IntegerField(min_value=1)
\* (UpdateQuantityValidNoStock: the serializer without validate_quantity.)
UpdateQuantityValidNoStock(q, productStock) ==
    q >= 1

UpdateQuantityValid(q, productStock) ==
    q >= 1 /\ q <= productStock

\* CartItem.objects.get(id=item_id, cart__user=request.user): the item is
\* named by its owner's cart and its position there.
\* (OwnItemAnyCart: the lookup without the cart__user filter.)
OwnItemAnyCart(u, owner, i) ==
    i \in 1..Len(cart[owner])

OwnItem(u, owner, i) ==
    owner = u /\ i \in 1..Len(cart[owner])

\* UpdateCartItemView.patch
UpdateItem(u, owner, i, q) ==
    /\ IF ~OwnItem(u, owner, i)
         THEN /\ CartRequest("update", u, LineTarget(owner, i, q), 404)
              /\ UNCHANGED cart
         ELSE IF ~UpdateQuantityValid(q, stock[cart[owner][i].product])
         THEN /\ CartRequest("update", u, LineTarget(owner, i, q), 400)
              /\ UNCHANGED cart
         ELSE /\ CartRequest("update", u, LineTarget(owner, i, q), 200)
              /\ cart' = [cart EXCEPT ![owner][i].quantity =
                             CartItemSave(q, stock[cart[owner][i].product])]
    /\ UNCHANGED hasCart
    /\ CartStoreUnchanged

\* RemoveFromCartView.delete
RemoveItem(u, owner, i) ==
    /\ IF ~OwnItem(u, owner, i)
         THEN /\ CartRequest("remove", u, LineTarget(owner, i, 0), 404)
              /\ UNCHANGED cart
         ELSE /\ CartRequest("remove", u, LineTarget(owner, i, 0), 200)
              /\ cart' = [cart EXCEPT ![owner] =
                             [k \in 1..(Len(@) - 1) |-> IF k < i THEN @[k] ELSE @[k + 1]]]
    /\ UNCHANGED hasCart
    /\ CartStoreUnchanged

\* ClearCartView.delete: Cart.objects.get_or_create, then cart.clear()
ClearCart(u) ==
    /\ CartRequest("clear", u, NoTarget, 200)
    /\ hasCart' = [hasCart EXCEPT ![u] = TRUE]
    /\ cart' = [cart EXCEPT ![u] = <<>>]
    /\ CartStoreUnchanged

\* ------------------------------------------------------------ admin

\* StockUpdateSerializer: IntegerField(min_value=0) and validate_stock
StockUpdateValid(v) ==
    v >= 0

\* ProductStockUpdateView.patch (an unknown pk answers 404)
AdminStockUpdate(p, v) ==
    /\ adminOps < MaxAdminOps
    /\ adminOps' = adminOps + 1
    /\ p \notin deleted
    /\ StockUpdateValid(v)
    /\ stock' = [stock EXCEPT ![p] = v]
    /\ cache' = invalidate_product_cache(cache, p)
    /\ adminResp' = [op |-> "stock", code |-> 200]
    /\ UNCHANGED <<price, hasCart, cart, orders, orderItems, req, tasks, sent, cartOps, stock0, conn, groups, inbox, statusResp, statusOps, statusReq, cacheLog, cacheOps, deleted, category, inactive, cartResp, received>>

\* ProductStockUpdateView.patch when the cache backend is unreachable:
\* product.save() has run, invalidate_product_cache raises at its first cache
\* call, and the handler's only except clause is for Product.DoesNotExist, so
\* the exception leaves the view and the caller is answered 500.
AdminStockUpdateCacheDown(p, v) ==
    /\ adminOps < MaxAdminOps
    /\ adminOps' = adminOps + 1
    /\ p \notin deleted
    /\ StockUpdateValid(v)
    /\ stock' = [stock EXCEPT ![p] = v]
    /\ adminResp' = [op |-> "stock", code |-> 500]
    /\ UNCHANGED <<cache, price, hasCart, cart, orders, orderItems, req, tasks, sent, cartOps, stock0, conn, groups, inbox, statusResp, statusOps, statusReq, cacheLog, cacheOps, deleted, category, inactive, cartResp, received>>

\* ProductDetailView.perform_update (price edit)
AdminPriceUpdate(p, v) ==
    /\ adminOps < MaxAdminOps
    /\ adminOps' = adminOps + 1
    /\ p \notin deleted
    /\ v # price[p]
    /\ price' = [price EXCEPT ![p] = v]
    /\ cache' = invalidate_product_cache(cache, p)
    /\ adminResp' = [op |-> "price", code |-> 200]
    /\ UNCHANGED <<stock, hasCart, cart, orders, orderItems, req, tasks, sent, cartOps, stock0, conn, groups, inbox, statusResp, statusOps, statusReq, cacheLog, cacheOps, deleted, category, inactive, cartResp, received>>

\* ProductDetailView.perform_update when the cache backend is unreachable:
\* serializer.save() has run, invalidate_product_cache raises and nothing
\* between it and the caller catches the exception.
AdminPriceUpdateCacheDown(p, v) ==
    /\ adminOps < MaxAdminOps
    /\ adminOps' = adminOps + 1
    /\ p \notin deleted
    /\ v # price[p]
    /\ price' = [price EXCEPT ![p] = v]
    /\ adminResp' = [op |-> "price", code |-> 500]
    /\ UNCHANGED <<cache, stock, hasCart, cart, orders, orderItems, req, tasks, sent, cartOps, stock0, conn, groups, inbox, statusResp, statusOps, statusReq, cacheLog, cacheOps, deleted, category, inactive, cartResp, received>>

\* ProductDetailView.perform_update with is_active = False
AdminDeactivate(p) ==
    /\ adminOps < MaxAdminOps
    /\ adminOps' = adminOps + 1
    /\ p \notin deleted \cup inactive
    /\ inactive' = inactive \cup {p}
    /\ cache' = invalidate_product_cache(cache, p)
    /\ UNCHANGED <<stock, price, hasCart, cart, orders, orderItems, req, tasks, sent, cartOps, stock0, conn, groups, inbox, statusResp, statusOps, statusReq, cacheLog, cacheOps, deleted, category, adminResp, cartResp, received>>

\* ProductDetailView.perform_destroy: the cache is invalidated and the row is
\* deleted; CartItem.product and OrderItem.product are on_delete=CASCADE, so
\* the cart lines and the order items of the product go with it.
DeleteProduct(p) ==
    /\ adminOps < MaxAdminOps
    /\ adminOps' = adminOps + 1
    /\ p \notin deleted
    /\ cache' = invalidate_product_cache(cache, p)
    /\ deleted' = deleted \cup {p}
    /\ cart' = [u \in Users |-> SelectSeq(cart[u], LAMBDA l : l.product # p)]
    /\ orderItems' = {i \in orderItems : i.product # p}
    /\ UNCHANGED <<stock, price, hasCart, orders, req, tasks, sent, cartOps, stock0, conn, groups, inbox, statusResp, statusOps, statusReq, cacheLog, cacheOps, category, adminResp, inactive, cartResp, received>>

\* CategoryDetailView (generic update): the row is saved, no cache call.
CategoryUpdate(k, v) ==
    /\ adminOps < MaxAdminOps
    /\ adminOps' = adminOps + 1
    /\ v # category[k]
    /\ category' = [category EXCEPT ![k] = v]
    /\ UNCHANGED <<stock, price, hasCart, cart, orders, orderItems, req, tasks, sent, cartOps, stock0, conn, groups, inbox, statusResp, statusOps, statusReq, cache, cacheLog, cacheOps, deleted, adminResp, inactive, cartResp, received>>

\* ------------------------------------------------------------ cache reads and writes

\* cacheLog records the cache calls made on behalf of clients, with what each
\* returned; it is there for the properties only.
Logged(op, k, value) ==
    /\ cacheOps < MaxCacheOps
    /\ cacheOps' = cacheOps + 1
    /\ cacheLog' = Append(cacheLog, [op |-> op, key |-> k, value |-> value])

StoreUnchanged ==
    UNCHANGED <<stock, price, hasCart, cart, orders, orderItems, req, tasks, sent, cartOps, adminOps, stock0, conn, groups, inbox, statusResp, statusOps, statusReq, deleted, category, adminResp, inactive, cartResp, received>>

\* set_cached_product(product) / set_cached_category(category)
SetCachedProduct(p) ==
    /\ p \notin deleted
    /\ cache' = [cache EXCEPT ![ProductDetailKey(p)] = Hit(ProductRow(p))]
    /\ Logged("set", ProductDetailKey(p), Hit(ProductRow(p)))
    /\ StoreUnchanged

SetCachedCategory(k) ==
    /\ cache' = [cache EXCEPT ![CategoryDetailKey(k)] = Hit(CategoryRow(k))]
    /\ Logged("set", CategoryDetailKey(k), Hit(CategoryRow(k)))
    /\ StoreUnchanged

\* get_cached_product(product_id) / get_cached_category(category_id)
get_cached_product(c, id) ==
    c[ProductDetailKey(id)]

get_cached_category(c, id) ==
    c[CategoryDetailKey(id)]

GetCachedProduct(p) ==
    /\ Logged("get", ProductDetailKey(p), get_cached_product(cache, p))
    /\ UNCHANGED cache
    /\ StoreUnchanged

GetCachedCategory(k) ==
    /\ Logged("get", CategoryDetailKey(k), get_cached_category(cache, k))
    /\ UNCHANGED cache
    /\ StoreUnchanged

\* InvalidateProductCacheView.post / InvalidateCategoryCacheView.post:
\* product_id / category_id is optional in the request.
InvalidateProductCacheView(id) ==
    /\ cache' = invalidate_product_cache(cache, id)
    /\ Logged("invalidate", ProductDetailKey(id), Miss)
    /\ StoreUnchanged

InvalidateCategoryCacheView(id) ==
    /\ cache' = invalidate_category_cache(cache, id)
    /\ Logged("invalidate", CategoryDetailKey(id), Miss)
    /\ StoreUnchanged

\* cache_product_list(queryset) / cache_category_list(queryset): the cached
\* list when there is one, else the queryset is evaluated and cached.
ReadThrough(k) ==
    /\ cache' = IF cache[k] = Miss THEN [cache EXCEPT ![k] = Hit(Fresh(k))] ELSE cache
    /\ Logged("list", k, IF cache[k] = Miss THEN Hit(Fresh(k)) ELSE cache[k])
    /\ StoreUnchanged

CacheProductList ==
    ReadThrough(get_cache_key("products_list"))

CacheCategoryList ==
    ReadThrough(get_cache_key("categories_list"))

\* PublicProductListView.get under cache_page(3600): the cached response when
\* there is one, else the list is rendered and cached.
PublicProductListGet ==
    ReadThrough(CachePageKey)

\* ------------------------------------------------------------ notification block

\* try: asyncio.create_task(...) ... except Exception: the coroutines the block
\* schedules and whether the exception leaves the block.  asyncio.create_task
\* raises RuntimeError when the calling thread has no running event loop; the
\* except clause swallows it and the handler goes on to its response.
\* (NotificationBlockPropagates: the block without its except clause.)
NotificationBlockPropagates(loop, events) ==
    [scheduled |-> IF loop THEN events ELSE <<>>, failed |-> ~loop]

NotificationBlock(loop, events) ==
    [scheduled |-> IF loop THEN events ELSE <<>>, failed |-> FALSE]

\* ------------------------------------------------------------ create order

\* Cart.objects.get(user=user) raises DoesNotExist, or cart.items.exists() is
\* false.  (CartEmptyOnlyMissing: the second test left out.)
CartEmptyOnlyMissing(has, lines) ==
    ~has

CartEmpty(has, lines) ==
    ~has \/ lines = <<>>

\* CreateOrderView.post, lines 509-527: serializer, cart lookup, emptiness
\* check and the stock validation loop.
CheckCart(r, u, loop, addrOk) ==
    /\ req[r].pc = "idle"
    /\ LET bad == ValidateStock(cart[u], stock)
           new == [req[r] EXCEPT !.user = u, !.loop = loop]
       IN  req' = [req EXCEPT ![r] =
             IF ~addrOk
               THEN [new EXCEPT !.pc = "done",
                       !.resp = [NoResp EXCEPT !.code = 400, !.kind = "invalid"]]
             ELSE IF CartEmpty(hasCart[u], cart[u])
               THEN [new EXCEPT !.pc = "done",
                       !.resp = [NoResp EXCEPT !.code = 400, !.kind = "cart_empty"]]
             ELSE IF bad # <<>>
               THEN [new EXCEPT !.pc = "done",
                       !.resp = [code |-> 400, kind |-> "insufficient",
                                 product |-> bad[1].product,
                                 available |-> stock[bad[1].product]]]
             ELSE [new EXCEPT !.pc = "order"]]
    /\ UNCHANGED <<stock, price, hasCart, cart, orders, orderItems, tasks, sent, cartOps, adminOps, stock0, conn, groups, inbox, statusResp, statusOps, statusReq, cache, cacheLog, cacheOps, deleted, category, adminResp, inactive, cartResp, received>>

\* Order.objects.create(user, total_price=cart.total_price, ...)
InsertOrder(r) ==
    /\ req[r].pc = "order"
    /\ orders' = Append(orders, [user |-> req[r].user, status |-> "pending",
                                 total_price |-> CartTotal(cart[req[r].user], price)])
    /\ req' = [req EXCEPT ![r].order = Len(orders) + 1, ![r].pc = "loop"]
    /\ UNCHANGED <<stock, price, hasCart, cart, orderItems, tasks, sent, cartOps, adminOps, stock0, conn, groups, inbox, statusResp, statusOps, statusReq, cache, cacheLog, cacheOps, deleted, category, adminResp, inactive, cartResp, received>>

\* for item in cart.items.all(): the queryset of the second loop is evaluated.
LoadItems(r) ==
    /\ req[r].pc = "loop"
    /\ req' = [req EXCEPT ![r].items = cart[req[r].user], ![r].idx = 1,
                          ![r].pc = IF cart[req[r].user] = <<>> THEN "clear" ELSE "item"]
    /\ UNCHANGED <<stock, price, hasCart, cart, orders, orderItems, tasks, sent, cartOps, adminOps, stock0, conn, groups, inbox, statusResp, statusOps, statusReq, cache, cacheLog, cacheOps, deleted, category, adminResp, inactive, cartResp, received>>

\* OrderItem.objects.create(order, product=item.product, quantity, price): the
\* product row is loaded here and stays cached on the item.
InsertOrderItem(r) ==
    /\ req[r].pc = "item"
    /\ LET line == req[r].items[req[r].idx]
           p == line.product
       IN  /\ orderItems' = orderItems \cup
                {[order |-> req[r].order, product |-> p,
                  quantity |-> line.quantity, price |-> price[p]]}
           /\ req' = [req EXCEPT ![r].prod = [id |-> p, stock |-> stock[p], price |-> price[p]],
                                 ![r].pc = "stock"]
    /\ UNCHANGED <<stock, price, hasCart, cart, orders, tasks, sent, cartOps, adminOps, stock0, conn, groups, inbox, statusResp, statusOps, statusReq, cache, cacheLog, cacheOps, deleted, category, adminResp, inactive, cartResp, received>>

\* item.product.decrease_stock(item.quantity): the check is made on the loaded
\* instance, save() writes the whole row, the return value is dropped.
DecreaseStock(r) ==
    /\ req[r].pc = "stock"
    /\ LET line == req[r].items[req[r].idx]
           p == line.product
           res == decrease_stock(req[r].prod, line.quantity)
           ok == res.ok
           after == res.prod
           last == req[r].idx = Len(req[r].items)
       IN  /\ stock' = IF ok THEN [stock EXCEPT ![p] = after.stock] ELSE stock
           /\ price' = IF ok THEN [price EXCEPT ![p] = after.price] ELSE price
           /\ req' = [req EXCEPT ![r].prod = after,
                                 ![r].declined = @ \/ ~ok,
                                 ![r].idx = IF last THEN @ ELSE @ + 1,
                                 ![r].pc = IF last THEN "clear" ELSE "item"]
    /\ UNCHANGED <<hasCart, cart, orders, orderItems, tasks, sent, cartOps, adminOps, stock0, conn, groups, inbox, statusResp, statusOps, statusReq, cache, cacheLog, cacheOps, deleted, category, adminResp, inactive, cartResp, received>>

\* cart.clear()
ClearCartOfOrder(r) ==
    /\ req[r].pc = "clear"
    /\ cart' = [cart EXCEPT ![req[r].user] = <<>>]
    /\ req' = [req EXCEPT ![r].pc = "notify"]
    /\ UNCHANGED <<stock, price, hasCart, orders, orderItems, tasks, sent, cartOps, adminOps, stock0, conn, groups, inbox, statusResp, statusOps, statusReq, cache, cacheLog, cacheOps, deleted, category, adminResp, inactive, cartResp, received>>

\* The two asyncio.create_task calls and the 201 response.  Without a running
\* event loop in the handler's thread the first create_task raises
\* RuntimeError, which the except clause swallows.  audience records, for the
\* properties only, the connections subscribed to the user's group just then.
Notify(r) ==
    /\ req[r].pc = "notify"
    /\ LET blk == NotificationBlock(req[r].loop,
                     <<[type |-> "order_created", group |-> UserGroup(req[r].user),
                        order |-> req[r].order, new |-> "none", op |-> 0],
                       [type |-> "new_order", group |-> AdminGroup,
                        order |-> req[r].order, new |-> "none", op |-> 0]>>)
       IN  /\ tasks' = tasks \o blk.scheduled
           /\ req' = [req EXCEPT ![r].pc = "done",
                                 ![r].audience = groups[UserGroup(req[r].user)],
                                 ![r].resp = IF blk.failed
                                               THEN [NoResp EXCEPT !.code = 500, !.kind = "error"]
                                               ELSE [NoResp EXCEPT !.code = 201, !.kind = "created"]]
    /\ UNCHANGED <<stock, price, hasCart, cart, orders, orderItems, sent, cartOps, adminOps, stock0, conn, groups, inbox, statusResp, statusOps, statusReq, cache, cacheLog, cacheOps, deleted, category, adminResp, inactive, cartResp, received>>

CreateOrderStep(r) ==
    \/ InsertOrder(r)
    \/ LoadItems(r)
    \/ InsertOrderItem(r)
    \/ DecreaseStock(r)
    \/ ClearCartOfOrder(r)
    \/ Notify(r)

\* ------------------------------------------------------------ order status

StatusChoices == {"pending", "shipped", "delivered", "cancelled"}
TerminalStatuses == {"delivered", "cancelled"}

\* UpdateOrderStatusSerializer.validate_status: TRUE when the value passes.
\* (ValidateStatusNoCheck: a validator that accepts every pair;
\* ValidateStatusStrict: one that accepts only the four forward transitions.)
ValidateStatusNoCheck(current, value) ==
    TRUE

ValidateStatusStrict(current, value) ==
    <<current, value>> \in {<<"pending", "shipped">>, <<"pending", "cancelled">>,
                            <<"shipped", "delivered">>, <<"shipped", "cancelled">>}

validate_status(current, value) ==
    ~(current \in TerminalStatuses /\ value \notin TerminalStatuses)

\* Order.update_status, the write: self.status = new_status; self.save().  The
\* instance's other columns are written back as they were loaded, and no code
\* writes them after the insert.
\* (UpdateStatusReprices: a save that recomputes total_price from the order's
\* items at the products' current prices.)
UpdateStatusReprices(rows, o, value) ==
    LET its == {it \in orderItems : it.order = o}
        repriced == {<<it.product, it.quantity * price[it.product]>> : it \in its}
    IN  [rows EXCEPT ![o].status = value,
                     ![o].total_price =
                        IF repriced = {} THEN 0
                        ELSE (CHOOSE x \in repriced : TRUE)[2] * Cardinality(repriced)]

update_status(rows, o, value) ==
    [rows EXCEPT ![o].status = value]

\* Order.update_status followed by the notification block of
\* AdminOrderStatusUpdateView.patch: the coroutines scheduled when the
\* handler's thread has a running event loop (none otherwise: create_task
\* raises and both except clauses swallow it).
StatusTasks(o, owner, value, loop, op) ==
    LET update == [type |-> "order_update", group |-> UserGroup(owner), order |-> o,
                   new |-> value, op |-> op]
        changed == [type |-> "order_status_changed", group |-> AdminGroup, order |-> o,
                    new |-> value, op |-> op]
        inModel == NotificationBlock(loop, <<update>>)
        inView == NotificationBlock(loop, <<update, changed>>)
    IN  [scheduled |-> inModel.scheduled \o inView.scheduled,
         failed |-> inModel.failed \/ inView.failed]

\* AdminOrderStatusUpdateView.patch, first statement: Order.objects.get loads
\* the order into the handler's instance.  (An unknown id answers 404 and
\* changes nothing.)  op numbers the request, for the properties only.
LoadOrder(s, o, value, loop) ==
    /\ statusReq[s].pc = "idle"
    /\ statusOps < MaxStatusOps
    /\ statusOps' = statusOps + 1
    /\ o \in 1..Len(orders)
    /\ statusReq' = [statusReq EXCEPT ![s] =
                        [pc |-> "loaded", order |-> o, status |-> orders[o].status,
                         value |-> value, loop |-> loop, op |-> statusOps + 1]]
    /\ UNCHANGED <<stock, price, hasCart, cart, orders, orderItems, req, tasks, sent, conn, groups, inbox, cartOps, adminOps, stock0, statusResp, cache, cacheLog, cacheOps, deleted, category, adminResp, inactive, cartResp, received>>

\* AdminOrderStatusUpdateView.patch, the rest: the serializer validates the
\* requested status against the status of the loaded instance,
\* Order.update_status saves the instance, the notifications are scheduled and
\* the response is returned.  statusResp records the response together with
\* the row's status just before this step.
SaveStatus(s) ==
    /\ statusReq[s].pc = "loaded"
    /\ LET o == statusReq[s].order
           old == statusReq[s].status
           value == statusReq[s].value
           valid == value \in StatusChoices /\ validate_status(old, value)
           sched == StatusTasks(o, orders[o].user, value, statusReq[s].loop, statusReq[s].op)
       IN  /\ statusResp' = [order |-> o, old |-> old, requested |-> value,
                             before |-> orders[o].status,
                             code |-> IF ~valid THEN 400
                                      ELSE IF sched.failed THEN 500 ELSE 200]
           /\ orders' = IF valid THEN update_status(orders, o, value) ELSE orders
           /\ tasks' = IF valid THEN tasks \o sched.scheduled ELSE tasks
    /\ statusReq' = [statusReq EXCEPT ![s] = IdleStatusReq]
    /\ UNCHANGED <<stock, price, hasCart, cart, orderItems, req, sent, conn, groups, inbox, cartOps, adminOps, stock0, statusOps, cache, cacheLog, cacheOps, deleted, category, adminResp, inactive, cartResp, received>>

\* ------------------------------------------------------------ notifications

\* OrderConsumer.connect
ConnectOrder(c, who) ==
    /\ conn[c].state = "new"
    /\ IF ~IsAuthenticated(who)
         THEN /\ conn' = [conn EXCEPT ![c] = [state |-> "refused", endpoint |-> "orders",
                                                user |-> who, failed |-> FALSE]]
              /\ UNCHANGED <<groups, inbox>>
         ELSE /\ groups' = [groups EXCEPT ![UserGroup(who)] = @ \cup {c}]
              /\ conn' = [conn EXCEPT ![c] = [state |-> "open", endpoint |-> "orders",
                                                user |-> who, failed |-> FALSE]]
              /\ inbox' = [inbox EXCEPT ![c] =
                             Append(@, Established)]
    /\ UNCHANGED <<stock, price, hasCart, cart, orders, orderItems, req, tasks, sent, cartOps, adminOps, stock0, statusResp, statusOps, statusReq, cache, cacheLog, cacheOps, deleted, category, adminResp, inactive, cartResp, received>>

\* AdminOrderConsumer.connect
ConnectAdmin(c, who) ==
    /\ conn[c].state = "new"
    /\ IF ~IsAuthenticated(who) \/ ~IsAdmin(who)
         THEN /\ conn' = [conn EXCEPT ![c] = [state |-> "refused", endpoint |-> "admin",
                                                user |-> who, failed |-> FALSE]]
              /\ UNCHANGED <<groups, inbox>>
         ELSE /\ groups' = [groups EXCEPT ![AdminGroup] = @ \cup {c}]
              /\ conn' = [conn EXCEPT ![c] = [state |-> "open", endpoint |-> "admin",
                                                user |-> who, failed |-> FALSE]]
              /\ inbox' = [inbox EXCEPT ![c] =
                             Append(@, Established)]
    /\ UNCHANGED <<stock, price, hasCart, cart, orders, orderItems, req, tasks, sent, cartOps, adminOps, stock0, statusResp, statusOps, statusReq, cache, cacheLog, cacheOps, deleted, category, adminResp, inactive, cartResp, received>>

\* OrderConsumer.disconnect / AdminOrderConsumer.disconnect.  The group name
\* attribute is set only on the accepting path of connect: for a refused
\* connection the handler raises AttributeError.
Disconnect(c) ==
    /\ conn[c].state \in {"open", "refused"}
    /\ IF conn[c].state = "refused"
         THEN /\ conn' = [conn EXCEPT ![c].state = "closed", ![c].user = NoUser,
                                         ![c].failed = TRUE]
              /\ UNCHANGED groups
         ELSE /\ groups' = [groups EXCEPT
                    ![IF conn[c].endpoint = "admin" THEN AdminGroup
                                                    ELSE UserGroup(conn[c].user)] = @ \ {c}]
              /\ conn' = [conn EXCEPT ![c].state = "closed", ![c].user = NoUser]
    /\ UNCHANGED <<stock, price, hasCart, cart, orders, orderItems, req, tasks, sent, inbox, cartOps, adminOps, stock0, statusResp, statusOps, statusReq, cache, cacheLog, cacheOps, deleted, category, adminResp, inactive, cartResp, received>>

\* Messages a client may send on its socket: the two the consumer knows, any
\* other JSON object, and text that is not JSON.
ClientMessages == {"ping", "subscribe_orders", "other", "not_json"}

Reply(type) ==
    [type |-> type, order |-> 0, new |-> "none", op |-> 0]

\* OrderConsumer.receive: what the consumer sends back.
OrderConsumerReceive(type) ==
    CASE type = "ping" -> <<Reply("pong")>>
      [] type = "subscribe_orders" -> <<Reply("subscription_confirmed")>>
      [] type = "not_json" -> <<Reply("error")>>
      [] OTHER -> <<>>

\* AdminOrderConsumer defines no receive: AsyncWebsocketConsumer.receive,
\* which it inherits, does nothing.
AdminOrderConsumerReceive(type) ==
    <<>>

\* A client message arrives on an accepted connection.  received records the
\* message, for the properties only.
Receive(c, type) ==
    /\ conn[c].state = "open"
    /\ received.n < MaxClientMsgs
    /\ received' = [conn |-> c, type |-> type, n |-> received.n + 1]
    /\ inbox' = [inbox EXCEPT ![c] =
                    @ \o IF conn[c].endpoint = "admin"
                           THEN AdminOrderConsumerReceive(type)
                           ELSE OrderConsumerReceive(type)]
    /\ UNCHANGED <<stock, price, hasCart, cart, orders, orderItems, req, tasks, sent, conn, groups, cartOps, adminOps, stock0, statusResp, statusOps, statusReq, cache, cacheLog, cacheOps, deleted, category, adminResp, inactive, cartResp>>

\* A scheduled send_order_created / send_order_update / notify_new_order /
\* notify_order_status_change coroutine runs: channel_layer.group_send to the
\* group, and every consumer in the group forwards the event to its socket
\* (OrderConsumer.order_created / order_update, AdminOrderConsumer.new_order /
\* order_status_changed).
GroupSend(event, members, boxes) ==
    [c \in Conns |-> IF c \in members
                       THEN Append(boxes[c], [type |-> event.type, order |-> event.order,
                                              new |-> event.new, op |-> event.op])
                       ELSE boxes[c]]

RunTask ==
    /\ tasks # <<>>
    /\ sent' = Append(sent, Head(tasks))
    /\ inbox' = GroupSend(Head(tasks), groups[Head(tasks).group], inbox)
    /\ tasks' = Tail(tasks)
    /\ UNCHANGED <<stock, price, hasCart, cart, orders, orderItems, req, conn, groups, cartOps, adminOps, stock0, statusResp, statusOps, statusReq, cache, cacheLog, cacheOps, deleted, category, adminResp, inactive, cartResp, received>>

\* The same coroutine when channel_layer.group_send raises (transport error):
\* the exception stays in the task, nothing is sent, no handler sees it.
RunTaskFails ==
    /\ tasks # <<>>
    /\ tasks' = Tail(tasks)
    /\ UNCHANGED <<stock, price, hasCart, cart, orders, orderItems, req, sent, inbox, conn, groups, cartOps, adminOps, stock0, statusResp, statusOps, statusReq, cache, cacheLog, cacheOps, deleted, category, adminResp, inactive, cartResp, received>>

\* ------------------------------------------------------------ specification

Next ==
    \/ \E u \in Users, p \in Products, q \in 1..MaxStock : AddToCart(u, p, q)
    \/ \E p \in Products, v \in 0..MaxStock : AdminStockUpdate(p, v)
    \/ \E p \in Products, v \in 1..MaxPrice : AdminPriceUpdate(p, v)
    \/ \E r \in Reqs, u \in Users, ok \in BOOLEAN : CheckCart(r, u, FALSE, ok)
    \/ \E r \in Reqs : CreateOrderStep(r)

Spec == Init /\ [][Next]_vars

\* Requests handled one at a time, with or without a running event loop in the
\* handler's thread, and the WebSocket consumers.  On the admin endpoint the
\* callers here are an admin and an anonymous caller; customers trying the
\* admin endpoint are part of NextConnect.
Quiet ==
    \A r \in Reqs : req[r].pc \in {"idle", "done"}

NextNotify ==
    \/ Quiet /\ \E u \in Users, p \in Products, q \in 1..MaxStock : AddToCart(u, p, q)
    \/ Quiet /\ \E r \in Reqs, u \in Users, loop \in BOOLEAN : CheckCart(r, u, loop, TRUE)
    \/ \E r \in Reqs : CreateOrderStep(r)
    \/ \E c \in Conns, who \in Principals : ConnectOrder(c, who)
    \/ \E c \in Conns, who \in {AdminUser, Anonymous} : ConnectAdmin(c, who)
    \/ \E c \in Conns : Disconnect(c)
    \/ RunTask

\* The store once MaxReqs orders of one unit of product "A" have been placed,
\* one after the other, by any buyers: every request has run to its 201
\* response.  From there the admin moves the orders through their statuses.
PlacedLine == [product |-> "A", quantity |-> 1]

PlacedStore(buyers, ops) ==
    /\ stock = [p \in Products |-> IF p = "A" THEN MaxStock - MaxReqs ELSE MaxStock]
    /\ stock0 = [p \in Products |-> MaxStock]
    /\ price = [p \in Products |-> IF p = "A" THEN 1 ELSE MaxPrice]
    /\ hasCart = [u \in Users |-> \E r \in Reqs : buyers[r] = u]
    /\ cart = [u \in Users |-> <<>>]
    /\ orders = [r \in Reqs |-> [user |-> buyers[r], status |-> "pending",
                                  total_price |-> 1]]
    /\ orderItems = {[order |-> r, product |-> "A", quantity |-> 1, price |-> 1] : r \in Reqs}
    /\ req = [r \in Reqs |->
               [pc |-> "done", user |-> buyers[r], loop |-> FALSE,
                items |-> <<PlacedLine>>, idx |-> 1,
                prod |-> [id |-> "A", stock |-> MaxStock - r, price |-> 1],
                order |-> r, declined |-> FALSE, audience |-> {},
                resp |-> [NoResp EXCEPT !.code = 201, !.kind = "created"]]]
    /\ tasks = <<>>
    /\ sent = <<>>
    /\ cartOps = ops
    /\ adminOps = 0
    /\ statusResp = NoStatusResp
    /\ statusOps = 0
    /\ statusReq = [s \in StatusReqs |-> IdleStatusReq]
    /\ cache = [k \in CacheKeys |-> Miss]
    /\ cacheLog = <<>>
    /\ cacheOps = 0
    /\ deleted = {}
    /\ category = [k \in Categories |-> 0]
    /\ adminResp = NoAdminResp
    /\ inactive = {}
    /\ cartResp = NoCartResp
    /\ received = NoneReceived

PlacedOrders(buyers) ==
    PlacedStore(buyers, MaxReqs)

InitStatus ==
    \E buyers \in [Reqs -> Users] :
       /\ PlacedOrders(buyers)
       /\ conn = [c \in Conns |-> NewConn]
       /\ groups = [g \in GroupNames |-> {}]
       /\ inbox = [c \in Conns |-> <<>>]

\* The same store with the buyer of order 1 connected to the customer
\* endpoint (c1) and an admin connected to the admin endpoint (c2): the state
\* after ConnectOrder(c1, buyer) and ConnectAdmin(c2, admin).
InitSubscribed ==
    \E buyers \in [Reqs -> Users] :
       /\ PlacedOrders(buyers)
       /\ conn = [c \in Conns |->
                    IF c = "c1"
                      THEN [state |-> "open", endpoint |-> "orders", user |-> buyers[1],
                            failed |-> FALSE]
                      ELSE [state |-> "open", endpoint |-> "admin", user |-> AdminUser,
                            failed |-> FALSE]]
       /\ groups = [g \in GroupNames |->
                      IF g = UserGroup(buyers[1]) THEN {"c1"}
                      ELSE IF g = AdminGroup THEN {"c2"} ELSE {}]
       /\ inbox = [c \in Conns |-> <<Established>>]

NextStatus ==
    \/ \E s \in StatusReqs, o \in 1..MaxReqs, value \in StatusChoices \cup {"refunded"},
          loop \in BOOLEAN :
          LoadOrder(s, o, value, loop)
    \/ \E s \in StatusReqs : SaveStatus(s)
    \/ RunTask

InitNotify ==
    /\ Init
    /\ stock = [p \in Products |-> MaxStock]

SpecNotify == InitNotify /\ [][NextNotify]_vars

\* Order creation and status updates, one request at a time, with no
\* subscriber connected, with or without a running event loop, and sends that
\* may fail in transport.  Each user starts with one unit of a product in the
\* cart (the store after two AddToCart requests).
InitFailure ==
    /\ stock = [p \in Products |-> MaxStock]
    /\ stock0 = stock
    /\ price = [p \in Products |-> IF p = "A" THEN 1 ELSE MaxPrice]
    /\ hasCart = [u \in Users |-> TRUE]
    /\ cart = [u \in Users |-> <<[product |-> IF u = "u1" THEN "A" ELSE "B", quantity |-> 1]>>]
    /\ orders = <<>>
    /\ orderItems = {}
    /\ req = [r \in Reqs |-> IdleReq]
    /\ tasks = <<>>
    /\ sent = <<>>
    /\ conn = [c \in Conns |-> NewConn]
    /\ groups = [g \in GroupNames |-> {}]
    /\ inbox = [c \in Conns |-> <<>>]
    /\ cartOps = Cardinality(Users)
    /\ adminOps = 0
    /\ statusResp = NoStatusResp
    /\ statusOps = 0
    /\ statusReq = [s \in StatusReqs |-> IdleStatusReq]
    /\ cache = [k \in CacheKeys |-> Miss]
    /\ cacheLog = <<>>
    /\ cacheOps = 0
    /\ deleted = {}
    /\ category = [k \in Categories |-> 0]
    /\ adminResp = NoAdminResp
    /\ inactive = {}
    /\ cartResp = NoCartResp
    /\ received = NoneReceived

NextFailure ==
    \/ Quiet /\ \E r \in Reqs, u \in Users, loop \in BOOLEAN : CheckCart(r, u, loop, TRUE)
    \/ \E r \in Reqs : CreateOrderStep(r)
    \/ Quiet /\ tasks = <<>> /\
          \E o \in 1..MaxReqs, value \in {"shipped", "delivered"}, loop \in BOOLEAN :
             LoadOrder(1, o, value, loop)
    \/ \E s \in StatusReqs : SaveStatus(s)
    \/ RunTask
    \/ RunTaskFails

SpecFailure == InitFailure /\ [][NextFailure]_vars

\* Orders created and shipped, one request at a time, in a process with a
\* running event loop, while callers of every kind connect to the two
\* endpoints and disconnect.
NextChannels ==
    \/ Quiet /\ tasks = <<>> /\ \E r \in Reqs, u \in Users : CheckCart(r, u, TRUE, TRUE)
    \/ \E r \in Reqs : CreateOrderStep(r)
    \/ Quiet /\ tasks = <<>> /\ \E o \in 1..MaxReqs : LoadOrder(1, o, "shipped", TRUE)
    \/ \E s \in StatusReqs : SaveStatus(s)
    \/ RunTask
    \/ \E c \in Conns, who \in Principals : ConnectOrder(c, who)
    \/ \E c \in Conns, who \in Principals : ConnectAdmin(c, who)
    \/ \E c \in Conns : Disconnect(c)

SpecChannels == InitFailure /\ [][NextChannels]_vars

SpecStatus == InitStatus /\ [][NextStatus]_vars

SpecDelivery == InitSubscribed /\ [][NextStatus]_vars

\* The WebSocket endpoints with orders already placed: any caller connects to
\* either endpoint and disconnects, while the admin ships orders, one request
\* at a time, and the scheduled sends run.
NextConnect ==
    \/ \E c \in Conns, who \in Principals : ConnectOrder(c, who)
    \/ \E c \in Conns, who \in Principals : ConnectAdmin(c, who)
    \/ \E c \in Conns : Disconnect(c)
    \/ /\ tasks = <<>>
       /\ \A s \in StatusReqs : statusReq[s] = IdleStatusReq
       /\ \E o \in 1..MaxReqs : LoadOrder(1, o, "shipped", TRUE)
    \/ \E s \in StatusReqs : SaveStatus(s)
    \/ RunTask

SpecConnect == InitStatus /\ [][NextConnect]_vars

\* The two endpoints with the messages clients send on accepted connections.
NextSocket ==
    \/ \E c \in Conns, who \in Principals : ConnectOrder(c, who)
    \/ \E c \in Conns, who \in Principals : ConnectAdmin(c, who)
    \/ \E c \in Conns : Disconnect(c)
    \/ \E c \in Conns, type \in ClientMessages : Receive(c, type)

SpecSocket == InitStatus /\ [][NextSocket]_vars

\* Placed orders and everything that happens around them afterwards: price
\* and stock edits by the admin, cart writes by the users, and status updates,
\* one request at a time.
InitSnapshot ==
    \E buyers \in [Reqs -> Users] :
       /\ PlacedStore(buyers, 0)
       /\ conn = [c \in Conns |-> NewConn]
       /\ groups = [g \in GroupNames |-> {}]
       /\ inbox = [c \in Conns |-> <<>>]

NextSnapshot ==
    \/ \E u \in Users, p \in Products, q \in 1..MaxStock : AddToCart(u, p, q)
    \/ \E p \in Products, v \in 0..MaxStock : AdminStockUpdate(p, v)
    \/ \E p \in Products, v \in 1..MaxPrice : AdminPriceUpdate(p, v)
    \/ /\ \A s \in StatusReqs : statusReq[s] = IdleStatusReq
       /\ \E o \in 1..MaxReqs, value \in StatusChoices : LoadOrder(1, o, value, FALSE)
    \/ \E s \in StatusReqs : SaveStatus(s)

SpecSnapshot == InitSnapshot /\ [][NextSnapshot]_vars

\* The cart endpoints with every request they can receive, from any user,
\* naming any cart line, while an admin edits, deactivates or deletes
\* products.
NextCart ==
    \/ \E u \in Users, p \in Products \cup {NoProduct}, q \in 1..(MaxStock + 1) :
          AddItem(u, p, q)
    \/ \E u, owner \in Users, i \in 1..Cardinality(Products), q \in 0..(MaxStock + 1) :
          UpdateItem(u, owner, i, q)
    \/ \E u, owner \in Users, i \in 1..Cardinality(Products) : RemoveItem(u, owner, i)
    \/ \E u \in Users : ClearCart(u)
    \/ \E p \in Products, v \in 0..MaxStock : AdminStockUpdate(p, v)
    \/ \E p \in Products : AdminDeactivate(p)
    \/ \E p \in Products : DeleteProduct(p)

SpecCart == Init /\ [][NextCart]_vars

\* The cart endpoints and order creation, by any user on any cart line: cart
\* requests arrive at any moment of an order request, order requests one
\* after the other.
NextIsolation ==
    \/ \E u \in Users, p \in Products, q \in 1..MaxStock : AddItem(u, p, q)
    \/ \E u, owner \in Users, i \in 1..Cardinality(Products), q \in 1..MaxStock :
          UpdateItem(u, owner, i, q)
    \/ \E u, owner \in Users, i \in 1..Cardinality(Products) : RemoveItem(u, owner, i)
    \/ \E u \in Users : ClearCart(u)
    \/ Quiet /\ \E r \in Reqs, u \in Users : CheckCart(r, u, FALSE, TRUE)
    \/ \E r \in Reqs : CreateOrderStep(r)

SpecIsolation == InitNotify /\ [][NextIsolation]_vars

\* The catalog and its cache once orders have been placed: admin writes to
\* products and categories, and the cache calls made for clients.
NextCatalog ==
    \/ \E p \in Products, v \in 0..MaxStock : AdminStockUpdate(p, v)
    \/ \E p \in Products, v \in 1..MaxPrice : AdminPriceUpdate(p, v)
    \/ \E p \in Products : DeleteProduct(p)
    \/ \E k \in Categories : CategoryUpdate(k, 1)
    \/ \E p \in Products : SetCachedProduct(p)
    \/ \E p \in Products : GetCachedProduct(p)
    \/ \E k \in Categories : SetCachedCategory(k)
    \/ \E k \in Categories : GetCachedCategory(k)
    \/ \E id \in Products \cup {NoProduct} : InvalidateProductCacheView(id)
    \/ \E id \in Categories \cup {NoCategory} : InvalidateCategoryCacheView(id)
    \/ CacheProductList
    \/ CacheCategoryList
    \/ PublicProductListGet

SpecCatalog == InitStatus /\ [][NextCatalog]_vars

\* The same, with a cache backend that may be unreachable when an admin write
\* calls the invalidation.
NextOutage ==
    \/ NextCatalog
    \/ \E p \in Products, v \in 0..MaxStock : AdminStockUpdateCacheDown(p, v)
    \/ \E p \in Products, v \in 1..MaxPrice : AdminPriceUpdateCacheDown(p, v)

SpecOutage == InitStatus /\ [][NextOutage]_vars

\* ------------------------------------------------------------ properties

LineQty(lines, p) ==
    IF LineIndex(lines, p) = 0 THEN 0 ELSE lines[LineIndex(lines, p)].quantity

RECURSIVE ValueOver(_, _, _)
ValueOver(ps, lines, priceOf) ==
    IF ps = {}
      THEN 0
      ELSE LET p == CHOOSE x \in ps : TRUE
           IN  priceOf[p] * LineQty(lines, p) + ValueOver(ps \ {p}, lines, priceOf)

RECURSIVE QuantitySum(_)
QuantitySum(items) ==
    IF items = {}
      THEN 0
      ELSE LET it == CHOOSE x \in items : TRUE
           IN  it.quantity + QuantitySum(items \ {it})

RECURSIVE ItemsValue(_)
ItemsValue(items) ==
    IF items = {}
      THEN 0
      ELSE LET it == CHOOSE x \in items : TRUE
           IN  it.quantity * it.price + ItemsValue(items \ {it})

ItemsOfOrder(o) == {it \in orderItems : it.order = o}
ItemsOfProduct(p) == {it \in orderItems : it.product = p}

\* C1: the Order row inserted by createOrder carries, as total_price, the sum
\* over the lines the user's cart holds at that moment of quantity times the
\* product's price at that moment, and the cart.clear() step of the request
\* leaves the user's cart with no line.
C1_TotalPriceAndCartCleared ==
    [][\A r \in Reqs :
         /\ (req[r].pc = "order" /\ req'[r].pc # "order") =>
               /\ Len(orders') = Len(orders) + 1
               /\ orders'[Len(orders')].user = req[r].user
               /\ orders'[Len(orders')].total_price =
                      ValueOver(Products, cart[req[r].user], price)
         /\ (req[r].pc = "clear" /\ req'[r].pc # "clear") =>
               cart'[req[r].user] = <<>>]_vars

C1_Witness ==
    \E r \in Reqs :
       /\ req[r].pc = "done"
       /\ req[r].resp.code = 201
       /\ Len(req[r].items) = 2
       /\ \E i \in 1..2 : req[r].items[i].quantity = 2
       /\ orders[req[r].order].total_price = ItemsValue(ItemsOfOrder(req[r].order))
       /\ orders[req[r].order].total_price >= 4
       /\ cart[req[r].user] = <<>>

\* C2: a createOrder attempt that finds a cart line whose quantity exceeds
\* the product's stock ends at once with a 400 that names such a product and
\* its available stock, and that step changes no order, no order item, no
\* stock and no cart; the request never creates an order.
C2_InsufficientStockRejected ==
    [][\A r \in Reqs :
         /\ (req[r].resp.kind = "insufficient") => (req[r].pc = "done" /\ req[r].order = 0)
         /\ \A u \in Users :
              ( /\ req[r].pc = "idle" /\ req'[r].pc # "idle"
                /\ req'[r].user = u /\ req'[r].resp.kind # "invalid"
                /\ hasCart[u]
                /\ \E i \in 1..Len(cart[u]) : cart[u][i].quantity > stock[cart[u][i].product] )
              =>
              ( /\ req'[r].pc = "done"
                /\ req'[r].resp.code = 400
                /\ req'[r].resp.kind = "insufficient"
                /\ \E i \in 1..Len(cart[u]) :
                      /\ cart[u][i].product = req'[r].resp.product
                      /\ cart[u][i].quantity > stock[cart[u][i].product]
                      /\ req'[r].resp.available = stock[cart[u][i].product]
                /\ orders' = orders /\ orderItems' = orderItems
                /\ stock' = stock /\ cart' = cart )]_vars

C2_Witness ==
    \E r \in Reqs :
       /\ req[r].resp.kind = "insufficient"
       /\ Len(cart[req[r].user]) = 2
       /\ cart[req[r].user][1].quantity <= stock[cart[req[r].user][1].product]
       /\ cart[req[r].user][2].product = req[r].resp.product
       /\ cart[req[r].user][2].quantity > stock[req[r].resp.product]
       /\ req[r].resp.available = stock[req[r].resp.product]

\* C3: a request one of whose decrease_stock calls declined (the stock had
\* dropped since the pre-check) ends with no order item of its order left and
\* with a response that is not the success response.
C3_FailedDecrementRollsBack ==
    \A r \in Reqs :
       (req[r].pc = "done" /\ req[r].declined) =>
          /\ req[r].resp.code # 201
          /\ ItemsOfOrder(req[r].order) = {}

\* C4: with no admin edit and no request in flight, every product's stock is
\* its initial stock minus the quantities of the order items created for it,
\* so no more than the initial stock was ever ordered.
C4_NoLostUpdateNoOverselling ==
    (adminOps = 0 /\ Quiet) =>
       \A p \in Products :
          /\ stock[p] = stock0[p] - QuantitySum(ItemsOfProduct(p))
          /\ QuantitySum(ItemsOfProduct(p)) <= stock0[p]

\* C5: the stock of every product, in the store and on every instance a
\* request holds, is never negative, under any interleaving of order
\* creations and admin stock updates.
C5_StockNeverNegative ==
    /\ \A p \in Products : stock[p] >= 0
    /\ \A r \in Reqs : req[r].prod.stock >= 0

C5_Witness ==
    \E r \in Reqs :
       /\ req[r].pc = "done"
       /\ req[r].declined
       /\ stock[req[r].prod.id] = 0
       /\ QuantitySum(ItemsOfProduct(req[r].prod.id)) > stock0[req[r].prod.id]

\* The transition table of the specification's section 4.3.
SpecTransitions ==
    {<<"pending", "shipped">>, <<"pending", "cancelled">>,
     <<"shipped", "delivered">>, <<"shipped", "cancelled">>}

\* The last status update answered: statusResp.old is the status the handler
\* read, statusResp.before the row's status when it answered.
StatusAnswered == statusResp.code # 0
StatusOfAnswered == orders[statusResp.order].status
StatusUntouched == StatusOfAnswered = statusResp.before

\* C6 (as claimed): a status update is accepted exactly when (current,
\* requested) is one of pending -> shipped, pending -> cancelled,
\* shipped -> delivered, shipped -> cancelled, and a rejected update leaves the
\* order unchanged.
C6_OnlySpecTransitionsAccepted ==
    StatusAnswered =>
       /\ (statusResp.code = 200) <=> (<<statusResp.old, statusResp.requested>> \in SpecTransitions)
       /\ (statusResp.code = 400) => StatusUntouched

\* C6 (amended): a status update to one of the four statuses is rejected
\* exactly when the status the handler read is delivered or cancelled and the
\* requested one is pending or shipped; a rejected update leaves the row as it
\* was and every other pair is accepted and sets the status to the requested
\* one.
C6_RejectsExactlyTerminalToNonTerminal ==
    (StatusAnswered /\ statusResp.requested \in StatusChoices) =>
       /\ (statusResp.code = 400) <=>
             (statusResp.old \in TerminalStatuses /\ statusResp.requested \notin TerminalStatuses)
       /\ (statusResp.code = 400) => StatusUntouched
       /\ (statusResp.code = 200) => (StatusOfAnswered = statusResp.requested)

C6_Witness ==
    /\ statusResp.code = 200
    /\ statusResp.old = "pending"
    /\ statusResp.before = "pending"
    /\ statusResp.requested = "delivered"
    /\ StatusOfAnswered = "delivered"

\* C7 (as claimed): an update from delivered or cancelled to any other status
\* is rejected and leaves the status unchanged.
C7_TerminalRejectsEveryOtherStatus ==
    (StatusAnswered /\ statusResp.old \in TerminalStatuses
                    /\ statusResp.requested # statusResp.old) =>
       /\ statusResp.code = 400
       /\ StatusUntouched

\* C7 (amended): an update that read delivered or cancelled and asks for a
\* non-terminal status is rejected and leaves the row as it was; one that asks
\* for delivered or cancelled is accepted and sets it.
C7_TerminalRejectsNonTerminal ==
    (StatusAnswered /\ statusResp.old \in TerminalStatuses) =>
       /\ (statusResp.requested \notin TerminalStatuses) =>
             (statusResp.code = 400 /\ StatusUntouched)
       /\ (statusResp.requested \in TerminalStatuses) =>
             (statusResp.code = 200 /\ StatusOfAnswered = statusResp.requested)

C7_Witness ==
    /\ statusResp.code = 400
    /\ statusResp.old = "cancelled"
    /\ statusResp.before = "cancelled"
    /\ statusResp.requested = "shipped"
    /\ StatusOfAnswered = "cancelled"

\* C8: an order whose status is delivered or cancelled never has the status
\* pending or shipped in a later state; an update that read pending and asks
\* for shipped, or read shipped and asks for delivered, is accepted, and one
\* that read delivered and asks for pending is rejected.
C8_TerminalNeverLeft ==
    [][/\ \A o \in 1..Len(orders) :
            orders[o].status \in TerminalStatuses =>
               (o <= Len(orders') /\ orders'[o].status \in TerminalStatuses)
       /\ (statusResp' # statusResp) =>
            /\ (statusResp'.old = "pending" /\ statusResp'.requested = "shipped") =>
                  (statusResp'.code = 200 /\ orders'[statusResp'.order].status = "shipped")
            /\ (statusResp'.old = "shipped" /\ statusResp'.requested = "delivered") =>
                  (statusResp'.code = 200 /\ orders'[statusResp'.order].status = "delivered")
            /\ (statusResp'.old = "delivered" /\ statusResp'.requested = "pending") =>
                  (statusResp'.code = 400 /\ orders'[statusResp'.order].status = statusResp'.before)]_vars

\* The part of C8 that does hold: every answer follows the validator's rule
\* for the status the handler read.
C8_AnswersFollowReadStatus ==
    [][(statusResp' # statusResp) =>
            /\ (statusResp'.old = "pending" /\ statusResp'.requested = "shipped") =>
                  (statusResp'.code = 200 /\ orders'[statusResp'.order].status = "shipped")
            /\ (statusResp'.old = "shipped" /\ statusResp'.requested = "delivered") =>
                  (statusResp'.code = 200 /\ orders'[statusResp'.order].status = "delivered")
            /\ (statusResp'.old = "delivered" /\ statusResp'.requested = "pending") =>
                  (statusResp'.code = 400 /\ orders'[statusResp'.order].status = statusResp'.before)]_vars

CountIn(seq, type, order) ==
    Cardinality({i \in 1..Len(seq) : seq[i].type = type /\ seq[i].order = order})

Succeeded(r) ==
    req[r].pc = "done" /\ req[r].resp.code = 201

\* C9: once a createOrder request has answered 201 and no scheduled send is
\* pending, an order_created event for its order has been sent to the owner's
\* group and a new_order event to admin_orders; every such event, scheduled or
\* sent, belongs to an order whose request has finished all its writes and
\* succeeded, so none exists for a rejected creation.
C9_CreatedEventsEmittedAfterPersistence ==
    /\ \A r \in Reqs :
          (Succeeded(r) /\ tasks = <<>>) =>
             /\ \E i \in 1..Len(sent) :
                   /\ sent[i].type = "order_created" /\ sent[i].order = req[r].order
                   /\ sent[i].group = UserGroup(req[r].user)
             /\ \E i \in 1..Len(sent) :
                   /\ sent[i].type = "new_order" /\ sent[i].order = req[r].order
                   /\ sent[i].group = AdminGroup
    /\ \A i \in 1..Len(tasks \o sent) :
          (tasks \o sent)[i].type \in {"order_created", "new_order"} =>
             \E r \in Reqs : Succeeded(r) /\ req[r].order = (tasks \o sent)[i].order

\* C10: once a createOrder request has answered 201 and no scheduled send is
\* pending, every connection that was subscribed to the owner's group when the
\* request succeeded, and still is, has received exactly one order_created
\* event for the new order.
C10_ExactlyOneOrderCreated ==
    \A r \in Reqs :
       (Succeeded(r) /\ tasks = <<>>) =>
          \A c \in req[r].audience \cap groups[UserGroup(req[r].user)] :
             CountIn(inbox[c], "order_created", req[r].order) = 1

\* C11: a notification that cannot be scheduled (no running event loop), that
\* reaches no subscriber or that fails in transport never fails or undoes the
\* operation that triggered it: the last step of createOrder answers 201 with
\* the order, its items, the stock decrements and the cleared cart in place, an
\* accepted status update answers 200 with the new status stored, and a send,
\* failed or not, changes nothing in the store or in any response.
C11_NotificationFailureIsolated ==
    [][/\ \A r \in Reqs :
            (req[r].pc = "notify" /\ req'[r].pc = "done") =>
               /\ req'[r].resp.code = 201
               /\ req[r].order \in 1..Len(orders')
               /\ ItemsOfOrder(req[r].order)' # {}
               /\ cart'[req[r].user] = <<>>
               /\ \A p \in Products :
                     stock'[p] = stock0[p] - QuantitySum(ItemsOfProduct(p))
               /\ UNCHANGED <<orders, orderItems, stock, cart>>
       /\ \A s \in StatusReqs :
            (statusReq[s].pc = "loaded" /\ statusReq'[s].pc = "idle"
               /\ validate_status(statusReq[s].status, statusReq[s].value)) =>
               /\ statusResp'.code = 200
               /\ orders'[statusReq[s].order].status = statusReq[s].value
       /\ (Len(tasks') < Len(tasks)) =>
            UNCHANGED <<orders, orderItems, stock, cart, req, statusResp>>]_vars

C11_Witness ==
    /\ tasks = <<>>
    /\ \E r \in Reqs : Succeeded(r) /\ ~req[r].loop
    /\ \E r \in Reqs :
          /\ Succeeded(r) /\ req[r].loop
          /\ CountIn(sent, "order_created", req[r].order) = 0
          /\ CountIn(sent, "new_order", req[r].order) = 1
          /\ groups[AdminGroup] = {}
    /\ statusResp.code = 200
    /\ StatusOfAnswered = statusResp.requested
    /\ StatusOfAnswered # "pending"

\* A step of SaveStatus for request s, and the events a step appends to the
\* queue of scheduled sends.
SaveStep(s) ==
    statusReq[s].pc = "loaded" /\ statusReq'[s].pc = "idle"

Scheduled ==
    SubSeq(tasks', Len(tasks) + 1, Len(tasks'))

\* C12: the step that accepts a status update stores the new status and
\* emits order_update to the owner's group and then order_status_changed to
\* admin_orders; a rejected update emits nothing, no other step emits a status
\* event, and order_status_changed for an update is sent after its
\* order_update.
C12_StatusEventsAfterPersistence ==
    [][/\ \A s \in StatusReqs :
            SaveStep(s) =>
               IF statusResp'.code = 200
                 THEN /\ orders'[statusReq[s].order].status = statusReq[s].value
                      /\ \E i, j \in 1..Len(Scheduled) :
                            /\ i < j
                            /\ Scheduled[i].type = "order_update"
                            /\ Scheduled[i].group = UserGroup(orders[statusReq[s].order].user)
                            /\ Scheduled[i].op = statusReq[s].op
                            /\ Scheduled[j].type = "order_status_changed"
                            /\ Scheduled[j].group = AdminGroup
                            /\ Scheduled[j].op = statusReq[s].op
                 ELSE tasks' = tasks
       /\ (\A s \in StatusReqs : ~SaveStep(s)) => Len(tasks') <= Len(tasks)
       /\ (Len(sent') > Len(sent) /\ sent'[Len(sent')].type = "order_status_changed") =>
            \E i \in 1..Len(sent) :
               sent[i].type = "order_update" /\ sent[i].op = sent'[Len(sent')].op]_vars

CacheCall ==
    Len(cacheLog') > Len(cacheLog)

LastCall ==
    cacheLog'[Len(cacheLog')]

\* C14: a get_cached_product / get_cached_category that follows an
\* invalidate_product_cache(id) / invalidate_category_cache(id) of the same id,
\* with no set of that entry in between, returns nothing, whatever was cached
\* before the invalidation.
C14_NoDetailReadSurvivesInvalidation ==
    \A i, j \in 1..Len(cacheLog) :
       ( /\ i < j
         /\ cacheLog[i].op = "invalidate"
         /\ cacheLog[j].op = "get"
         /\ cacheLog[j].key = cacheLog[i].key
         /\ \A m \in (i + 1)..(j - 1) :
               ~(cacheLog[m].op = "set" /\ cacheLog[m].key = cacheLog[i].key) )
       => cacheLog[j].value = Miss

C14_Witness ==
    /\ Len(cacheLog) = 3
    /\ cacheLog[1].op = "set"
    /\ cacheLog[1].value # Miss
    /\ cacheLog[1].value # Hit(Fresh(cacheLog[1].key))
    /\ cacheLog[2].op = "invalidate"
    /\ cacheLog[2].key = cacheLog[1].key
    /\ cacheLog[3].op = "get"
    /\ cacheLog[3].key = cacheLog[1].key
    /\ cacheLog[3].value = Miss

\* C15: every call of invalidate_product_cache (invalidate_category_cache),
\* with or without an id, leaves no entry for the list that
\* cache_product_list (cache_category_list) caches, so that the next list read
\* returns the list as the store has it.
ListKeyOf(call) ==
    IF call.key[1] = "product_detail"
      THEN get_cache_key("products_list")
      ELSE get_cache_key("categories_list")

C15_InvalidationDropsCachedList ==
    [][/\ (CacheCall /\ LastCall.op = "invalidate") =>
            cache'[ListKeyOf(LastCall)] = Miss
       /\ ( /\ CacheCall /\ LastCall.op = "list"
            /\ cacheLog # <<>>
            /\ cacheLog[Len(cacheLog)].op = "invalidate"
            /\ ListKeyOf(cacheLog[Len(cacheLog)]) = LastCall.key ) =>
            LastCall.value = Hit(Fresh(LastCall.key))]_vars

\* C16: no cached catalog read returns data from before a write: whatever a
\* get_cached_product, get_cached_category, cache_product_list,
\* cache_category_list or cached GET /products/ returns from the cache is what
\* the store holds at that moment.
C16_NoStaleReadAfterWrite ==
    [][(CacheCall /\ LastCall.op \in {"get", "list"} /\ LastCall.value # Miss) =>
          LastCall.value = Hit(Fresh(LastCall.key))]_vars

\* C20: no admin product operation removes or alters an order item.
C20_OrderItemsSurviveProductDeletion ==
    [][orderItems \subseteq orderItems']_vars

\* C17: a connection is open only for an authenticated caller, and on the
\* admin endpoint only for an admin; a refused connection is in no group;
\* every member of admin_orders is an open admin connection of an admin, and
\* every member of user_<id> is an open connection authenticated as user id.
C17_GroupsHoldOnlyEntitledConnections ==
    /\ \A c \in Conns :
         /\ conn[c].state = "open" =>
               /\ conn[c].user \in Users \cup {AdminUser}
               /\ conn[c].endpoint = "admin" => conn[c].user = AdminUser
         /\ conn[c].state = "refused" =>
               /\ \A g \in DOMAIN groups : c \notin groups[g]
               /\ inbox[c] = <<>>
    /\ \A c \in groups[AdminGroup] :
         /\ conn[c].state = "open"
         /\ conn[c].endpoint = "admin"
         /\ conn[c].user = AdminUser
    /\ \A u \in Users \cup {AdminUser} : \A c \in groups[UserGroup(u)] :
         /\ conn[c].state = "open"
         /\ conn[c].endpoint = "orders"
         /\ conn[c].user = u

\* An unauthenticated caller has been refused on one endpoint and a customer
\* on the admin endpoint.
C17_Witness ==
    \E c, d \in Conns :
       /\ conn[c].state = "refused" /\ conn[c].user = Anonymous
       /\ conn[d].state = "refused" /\ conn[d].endpoint = "admin"
       /\ conn[d].user \in Users

\* C18: a well-formed createOrder request of a user who has no cart, or whose
\* cart has no lines, is answered 400 "Cart is empty" at once, and the step
\* leaves orders, order items, stock, carts and notifications as they were.
C18_EmptyCartRejectedWithoutEffect ==
    [][\A r \in Reqs :
         ( /\ req[r].pc = "idle"
           /\ req'[r].pc # "idle"
           /\ req'[r].resp.kind # "invalid"
           /\ \/ ~hasCart[req'[r].user]
              \/ cart[req'[r].user] = <<>> )
         => /\ req'[r].pc = "done"
            /\ req'[r].resp.code = 400
            /\ req'[r].resp.kind = "cart_empty"
            /\ UNCHANGED <<orders, orderItems, stock, hasCart, cart, tasks, sent, inbox>>]_vars

\* A user whose cart was emptied by an order asks for another order, and a
\* user who never had a cart asks for one.
C18_Witness ==
    \E r \in Reqs :
       /\ req[r].pc = "done"
       /\ req[r].resp.kind = "cart_empty"
       /\ hasCart[req[r].user]
       /\ cart[req[r].user] = <<>>
       /\ \E o \in 1..Len(orders) : orders[o].user = req[r].user

\* C19: in every state, every cart line's quantity is at most the current
\* stock of its product.
C19_CartQuantityWithinStock ==
    \A u \in Users : \A i \in 1..Len(cart[u]) :
       cart[u][i].quantity <= stock[cart[u][i].product]

\* C21: once an order exists its total_price never changes, and once an
\* order item exists it stays as it is, with its quantity and its price,
\* whatever price edit, stock edit, cart write or status update follows.
C21_OrderSnapshotImmutable ==
    [][/\ Len(orders') >= Len(orders)
       /\ \A o \in 1..Len(orders) : orders'[o].total_price = orders[o].total_price
       /\ orderItems \subseteq orderItems']_vars

\* An order has been shipped after the price of its product was changed, and
\* a cart holds a line: the order still carries the price it was placed at.
C21_Witness ==
    /\ \E it \in orderItems :
          /\ it.price # price[it.product]
          /\ orders[it.order].status # "pending"
          /\ orders[it.order].total_price = it.quantity * it.price
    /\ \E u \in Users : cart[u] # <<>>

\* C22: every admin stock update or product update that is carried out is
\* answered with success and its write is in the store, whether or not the
\* invalidation it calls raises.
C22_CacheFailureNotSurfaced ==
    [][adminOps' > adminOps /\ adminResp'.op \in {"stock", "price"} =>
          /\ adminResp'.code = 200
          /\ adminResp'.op = "price" => price' # price]_vars

\* C23: a createOrder that gets past validation (it always ends in 201)
\* inserts its order as pending, inserts for each cart line one order item
\* with the line's product and quantity and the product's current price, and
\* with each line lowers the stock of the line's product by the line's
\* quantity and no other stock.
C23_ItemsAndStockFollowCartLines ==
    [][\A r \in Reqs :
         /\ (req[r].pc = "order" /\ req'[r].pc # "order") =>
               /\ Len(orders') = Len(orders) + 1
               /\ orders'[Len(orders')].status = "pending"
         /\ (req[r].pc = "item" /\ req'[r].pc # "item") =>
               LET line == req[r].items[req[r].idx]
               IN  /\ orderItems \subseteq orderItems'
                   /\ orderItems' \ orderItems =
                         {[order |-> req[r].order, product |-> line.product,
                           quantity |-> line.quantity, price |-> price[line.product]]}
         /\ (req[r].pc = "stock" /\ req'[r].pc # "stock") =>
               LET line == req[r].items[req[r].idx]
               IN  stock' = [stock EXCEPT ![line.product] = @ - line.quantity]
         /\ (req[r].pc = "clear" /\ req'[r].pc # "clear") =>
               Cardinality(ItemsOfOrder(req[r].order)) = Len(req[r].items)]_vars

\* The step is the answer to a cart request of kind op.
CartStep(op) ==
    cartOps' = cartOps + 1 /\ cartResp'.op = op

Min(a, b) ==
    IF a < b THEN a ELSE b

\* C24: addItem(product, q), q >= 1, by user u.  When the product is missing,
\* inactive, without stock, or q is above its stock, the request is rejected
\* and no cart changes.  Otherwise u's cart ends with exactly one line for the
\* product, of quantity min(previous quantity + q, stock), every other line
\* of the cart is as before, in the same order, and no other cart changes.
C24_AddItemClampsOrRejects ==
    [][CartStep("add") =>
         LET u == cartResp'.user
             p == cartResp'.product
             q == cartResp'.q
             i == LineIndex(cart[u], p)
         IN  IF \/ p \notin Products
                \/ p \in deleted
                \/ p \in inactive
                \/ stock[p] = 0
                \/ q > stock[p]
               THEN cartResp'.code = 400 /\ cart' = cart
               ELSE /\ cartResp'.code = 200
                    /\ Cardinality({k \in 1..Len(cart'[u]) : cart'[u][k].product = p}) = 1
                    /\ LineQty(cart'[u], p) = Min(LineQty(cart[u], p) + q, stock[p])
                    /\ \A v \in Users \ {u} : cart'[v] = cart[v]
                    /\ IF i = 0
                         THEN SubSeq(cart'[u], 1, Len(cart[u])) = cart[u]
                              /\ Len(cart'[u]) = Len(cart[u]) + 1
                         ELSE \E n \in 0..MaxStock :
                                 cart'[u] = [cart[u] EXCEPT ![i].quantity = n]]_vars

\* An accepted add to an existing line that the stock cut short, next to
\* another line in the same cart.
C24_Witness ==
    /\ cartResp.op = "add"
    /\ cartResp.code = 200
    /\ cartResp.before >= 1
    /\ cartResp.before + cartResp.q > stock[cartResp.product]
    /\ LineQty(cart[cartResp.user], cartResp.product) = stock[cartResp.product]
    /\ Len(cart[cartResp.user]) >= 2

\* C25: updateItem on a line of the caller's own cart.  With q above the
\* current stock of the line's product the request is rejected and no cart
\* changes; with 1 <= q <= stock the line's quantity becomes exactly q and
\* nothing else in any cart changes.
C25_UpdateItemRejectsAboveStock ==
    [][(CartStep("update") /\ cartResp'.owner = cartResp'.user
                           /\ cartResp'.item \in 1..Len(cart[cartResp'.user])) =>
         LET u == cartResp'.user
             i == cartResp'.item
             q == cartResp'.q
             s == stock[cart[u][i].product]
         IN  /\ q > s => cartResp'.code = 400 /\ cart' = cart
             /\ (1 <= q /\ q <= s) =>
                   /\ cartResp'.code = 200
                   /\ cart' = [cart EXCEPT ![u][i].quantity = q]]_vars

\* A request for more than the stock has been rejected on a line that a
\* request within the stock could still change (the line is left as it was).
C25_Witness ==
    /\ cartResp.op = "update"
    /\ cartResp.code = 400
    /\ cartResp.owner = cartResp.user
    /\ cartResp.item \in 1..Len(cart[cartResp.user])
    /\ cartResp.q > stock[cartResp.product]
    /\ stock[cartResp.product] >= 1
    /\ cart[cartResp.user][cartResp.item].quantity = cartResp.before

\* C26: on an accepted connection of either endpoint a ping is answered with
\* a pong and a subscribe_orders with a subscription acknowledgement, sent to
\* that connection, and the groups stay as they were.
C26_PingAndSubscribeAnswered ==
    [][received'.n = received.n + 1 =>
         LET c == received'.conn
         IN  /\ groups' = groups
             /\ received'.type = "ping" =>
                   inbox'[c] = Append(inbox[c], Reply("pong"))
             /\ received'.type = "subscribe_orders" =>
                   inbox'[c] = Append(inbox[c], Reply("subscription_confirmed"))]_vars

\* C27: every order whose createOrder request has been answered has at least
\* one order item, and its total_price is the sum of quantity * price over
\* its items.  (Orders still being written by their request are left out.)
C27_OrdersHaveItemsMatchingTotal ==
    \A o \in 1..Len(orders) :
       (\A r \in Reqs : req[r].order = o => req[r].pc = "done") =>
          /\ ItemsOfOrder(o) # {}
          /\ orders[o].total_price = ItemsValue(ItemsOfOrder(o))

\* C28: a cart request of user u leaves every other user's cart as it was; an
\* updateItem or removeItem naming a line of another user's cart is answered
\* 404 and changes no cart; and every step of a createOrder request of user u
\* leaves every other user's cart as it was.
C28_CartIsolation ==
    [][/\ cartOps' = cartOps + 1 =>
            /\ \A v \in Users \ {cartResp'.user} :
                  cart'[v] = cart[v] /\ hasCart'[v] = hasCart[v]
            /\ ( /\ cartResp'.op \in {"update", "remove"}
                 /\ cartResp'.owner # cartResp'.user
                 /\ cartResp'.item \in 1..Len(cart[cartResp'.owner]) ) =>
                  cartResp'.code = 404 /\ cart' = cart
       /\ \A r \in Reqs :
            req'[r] # req[r] =>
               \A v \in Users \ {req'[r].user} :
                  cart'[v] = cart[v] /\ hasCart'[v] = hasCart[v]]_vars

\* A request naming a line of another user's cart has been answered 404 and
\* the line is there as before, and an order of one user has been placed
\* while the other user's cart holds a line.
C28_Witness ==
    /\ cartResp.op \in {"update", "remove"}
    /\ cartResp.code = 404
    /\ cartResp.owner # cartResp.user
    /\ cartResp.item \in 1..Len(cart[cartResp.owner])
    /\ cart[cartResp.owner][cartResp.item].quantity = cartResp.before
    /\ \E r \in Reqs : /\ req[r].pc = "done"
                        /\ req[r].resp.code = 201
                        /\ req[r].user # cartResp.owner

\* C29: an order_created or order_update event about an order goes to the
\* group of the order's owner and reaches only connections of the customer
\* endpoint authenticated as the owner; a new_order or order_status_changed
\* event goes to admin_orders and reaches only admin connections.
C29_ChannelIsolation ==
    [][(tasks # <<>> /\ tasks' = Tail(tasks) /\ sent' # sent) =>
         LET ev == Head(tasks)
             owner == orders[ev.order].user
             reached == {c \in Conns : inbox'[c] # inbox[c]}
         IN  /\ ev.type \in {"order_created", "order_update"} =>
                   /\ ev.group = UserGroup(owner)
                   /\ \A c \in reached : /\ conn[c].state = "open"
                                          /\ conn[c].endpoint = "orders"
                                          /\ conn[c].user = owner
             /\ ev.type \in {"new_order", "order_status_changed"} =>
                   /\ ev.group = AdminGroup
                   /\ \A c \in reached : /\ conn[c].state = "open"
                                          /\ conn[c].endpoint = "admin"
                                          /\ conn[c].user = AdminUser]_vars

\* Two customers are connected, an order of one of them has been created and
\* shipped, and only the owner's connection holds the events, both kinds.
C29_Witness ==
    \E c, d \in Conns :
       /\ conn[c].state = "open" /\ conn[c].endpoint = "orders"
       /\ conn[d].state = "open" /\ conn[d].endpoint = "orders"
       /\ conn[c].user # conn[d].user
       /\ \E i, j \in 1..Len(inbox[c]) :
             /\ inbox[c][i].type = "order_created"
             /\ inbox[c][j].type = "order_update"
             /\ orders[inbox[c][i].order].user = conn[c].user
       /\ inbox[d] = <<Established>>

\* C30: every connection that has been disconnected, accepted or refused at
\* connect, had its disconnect handler complete without error and is in no
\* group.
C30_DisconnectCompletesCleanly ==
    \A c \in Conns :
       conn[c].state = "closed" =>
          /\ ~conn[c].failed
          /\ \A g \in GroupNames : c \notin groups[g]

====
